---- MODULE Spec2Model ----
(***************************************************************************)
(* Model of the adaptive item-selection scheduler of the drill pages       *)
(* (NewsVocab, Nominalisation, Verbe) and of the React component state     *)
(* that hosts it: the priority sort, the next-card choice with its         *)
(* cooldown, the recency queue, the tally update, and the asynchronous     *)
(* load/restore and mark handlers.  Indices are the 0-based array indices  *)
(* of the code; a sequence element i of the code is element i+1 here.      *)
(***************************************************************************)
EXTENDS Integers, Sequences, FiniteSets, TLC

VARIABLES
    mod,          \* which page component is mounted: "news", "nom" or "verbe"
    uid,          \* useState uid: "" is null
    selected,     \* selectedTopicId / selectedPart / part: 0 is null
    dir,          \* useState dir (NewsVocab, Verbe); fixed in Nominalisation
    pairs,        \* useState pairs: the sequence of item ids
    stats,        \* useState stats: item id -> direction -> tally (partial)
    idx,          \* useState idx
    revealed,     \* useState revealed
    recent,       \* recentRef.current
    ready,        \* useState ready (Nominalisation)
    loadingPairs, \* useState loadingPairs
    loads,        \* load-effect runs suspended at an await
    marks,        \* mark handlers suspended at await recordAttemptSrv
    srvStats,     \* the statistics store (attempts table), per item and direction
    srvProg,      \* the progress store (user_progress), per working set and direction
    budget,       \* how many more marks / effect re-runs / navigations are explored
    res           \* result of the last direct call of a scheduler function

vars == <<mod, uid, selected, dir, pairs, stats, idx, revealed, recent, ready,
          loadingPairs, loads, marks, srvStats, srvProg, budget, res>>

(***************************************************************************)
(* Bounds of the exploration.                                              *)
(***************************************************************************)
MaxItems == 3
MaxCount == 2
MaxRecent == 2
MaxMarks == 1
MaxReloads == 3
MaxLoads == 2
MaxNavs == 1
MaxDrillMarks == 2

(***************************************************************************)
(* Program constants.                                                      *)
(***************************************************************************)
COOLDOWN_N == 1
LIMIT_PAIRS_NEWS == 20
LIMIT_PAIRS_NOM == 100
LIMIT_PAIRS_VERBE == 200

Range(s) == {s[k] : k \in 1..Len(s)}
Max(a, b) == IF a >= b THEN a ELSE b
Min(a, b) == IF a <= b THEN a ELSE b

Dirs(m) == IF m = "nom" THEN {"BASE2NOM"} ELSE {"JA2FR", "FR2JA"}

Zero == [correct |-> 0, wrong |-> 0]
zeroDirStat(m) == [d \in Dirs(m) |-> Zero]

\* statFor that adds up the tallies of every direction of the entry.
RECURSIVE sumTallies(_, _)
sumTallies(e, D) ==
    IF D = {} THEN Zero
    ELSE LET x == CHOOSE y \in D : TRUE
             r == sumTallies(e, D \ {x})
         IN  [correct |-> e[x].correct + r.correct, wrong |-> e[x].wrong + r.wrong]

statForBothDirs(st, id, d) == IF id \in DOMAIN st THEN sumTallies(st[id], DOMAIN st[id]) ELSE Zero

\* statFor that takes an absent entry for one wrong answer.
statForAbsentAsWrong(st, id, d) ==
    IF id \in DOMAIN st THEN st[id][d] ELSE [correct |-> 0, wrong |-> 1]

\* stats[id]?.[dir] ?? { correct: 0, wrong: 0 }
statFor(st, id, d) == IF id \in DOMAIN st THEN st[id][d] ELSE Zero

attempts(s) == s.correct + s.wrong

\* allHaveAtLeastOneCorrect satisfied by a correct answer in any direction.
allHaveAtLeastOneCorrectAnyDir(ps, st, d) ==
    \A k \in 1..Len(ps) :
        ps[k] \in DOMAIN st /\ \E x \in DOMAIN st[ps[k]] : st[ps[k]][x].correct >= 1

\* pairs.every((p) => (stats[p.id]?.[dir]?.correct ?? 0) >= 1)
allHaveAtLeastOneCorrect(ps, st, d) ==
    \A k \in 1..Len(ps) : statFor(st, ps[k], d).correct >= 1

\* cmpPhase1 that also reads the component's idx: the current card first.
cmpPhase1CurrentFirst(ps, st, d, a, b) ==
    LET sa == statFor(st, ps[a + 1], d)
        sb == statFor(st, ps[b + 1], d)
        aAtt == attempts(sa)
        bAtt == attempts(sb)
        aUnseen == aAtt = 0
        bUnseen == bAtt = 0
        aZeroCorrect == sa.correct = 0
        bZeroCorrect == sb.correct = 0
    IN  IF a # b /\ a = idx THEN 0 - 1
        ELSE IF a # b /\ b = idx THEN 1
        ELSE IF aUnseen # bUnseen THEN (IF aUnseen THEN -1 ELSE 1)
        ELSE IF aZeroCorrect # bZeroCorrect THEN (IF aZeroCorrect THEN -1 ELSE 1)
        ELSE IF aAtt # bAtt THEN aAtt - bAtt
        ELSE IF sa.wrong # sb.wrong THEN sb.wrong - sa.wrong
        ELSE a - b

\* insertInto that overwrites the element at the insertion point.
insertIntoOverwrites(cmp, s, x) ==
    LET lower == {j \in 1..Len(s) : cmp[x, s[j]] < 0}
        pos == IF lower = {} THEN Len(s) + 1
               ELSE CHOOSE j \in lower : \A i \in lower : j <= i
    IN  SubSeq(s, 1, pos - 1) \o <<x>> \o SubSeq(s, pos + 1, Len(s))

\* cmpPhase1 with the wrong answers compared first among the items never
\* answered correctly: no unseen-first test, no attempts test before it.
cmpPhase1WrongFirst(ps, st, d, a, b) ==
    LET sa == statFor(st, ps[a + 1], d)
        sb == statFor(st, ps[b + 1], d)
        aAtt == attempts(sa)
        bAtt == attempts(sb)
        aZeroCorrect == sa.correct = 0
        bZeroCorrect == sb.correct = 0
    IN  IF aZeroCorrect # bZeroCorrect THEN (IF aZeroCorrect THEN -1 ELSE 1)
        ELSE IF sa.wrong # sb.wrong THEN sb.wrong - sa.wrong
        ELSE IF aAtt # bAtt THEN aAtt - bAtt
        ELSE a - b

\* cmpPhase1 with the attempts compared before "never answered correctly".
cmpPhase1AttemptsFirst(ps, st, d, a, b) ==
    LET sa == statFor(st, ps[a + 1], d)
        sb == statFor(st, ps[b + 1], d)
        aAtt == attempts(sa)
        bAtt == attempts(sb)
        aUnseen == aAtt = 0
        bUnseen == bAtt = 0
        aZeroCorrect == sa.correct = 0
        bZeroCorrect == sb.correct = 0
    IN  IF aUnseen # bUnseen THEN (IF aUnseen THEN -1 ELSE 1)
        ELSE IF aAtt # bAtt THEN aAtt - bAtt
        ELSE IF aZeroCorrect # bZeroCorrect THEN (IF aZeroCorrect THEN -1 ELSE 1)
        ELSE IF sa.wrong # sb.wrong THEN sb.wrong - sa.wrong
        ELSE a - b

\* The phase-1 comparator: negative when index a goes before index b.
cmpPhase1(ps, st, d, a, b) ==
    LET sa == statFor(st, ps[a + 1], d)
        sb == statFor(st, ps[b + 1], d)
        aAtt == attempts(sa)
        bAtt == attempts(sb)
        aUnseen == aAtt = 0
        bUnseen == bAtt = 0
        aZeroCorrect == sa.correct = 0
        bZeroCorrect == sb.correct = 0
    IN  IF aUnseen # bUnseen THEN (IF aUnseen THEN -1 ELSE 1)
        ELSE IF aZeroCorrect # bZeroCorrect THEN (IF aZeroCorrect THEN -1 ELSE 1)
        ELSE IF aAtt # bAtt THEN aAtt - bAtt
        ELSE IF sa.wrong # sb.wrong THEN sb.wrong - sa.wrong
        ELSE a - b

\* cmpPhase2 with the accuracy compared the other way round (accB - accA).
cmpPhase2Descending(ps, st, d, a, b) ==
    LET sa == statFor(st, ps[a + 1], d)
        sb == statFor(st, ps[b + 1], d)
        divA == Max(1, sa.correct + sa.wrong)
        divB == Max(1, sb.correct + sb.wrong)
        accDiff == sb.correct * divA - sa.correct * divB
        aAtt == sa.correct + sa.wrong
        bAtt == sb.correct + sb.wrong
    IN  IF accDiff # 0 THEN accDiff
        ELSE IF aAtt # bAtt THEN aAtt - bAtt
        ELSE a - b

\* The phase-2 comparator.  accA - accB is a difference of two quotients of
\* small integers; its sign is the sign of the cross product below (the
\* divisors Math.max(1, attempts) are positive), and the quotients are equal
\* as doubles exactly when the cross product is 0.
cmpPhase2(ps, st, d, a, b) ==
    LET sa == statFor(st, ps[a + 1], d)
        sb == statFor(st, ps[b + 1], d)
        divA == Max(1, sa.correct + sa.wrong)
        divB == Max(1, sb.correct + sb.wrong)
        accDiff == sa.correct * divB - sb.correct * divA
        aAtt == sa.correct + sa.wrong
        bAtt == sb.correct + sb.wrong
    IN  IF accDiff # 0 THEN accDiff
        ELSE IF aAtt # bAtt THEN aAtt - bAtt
        ELSE a - b

\* Array.prototype.sort(compare) as an insertion sort: each element goes
\* before the first element it compares lower than.
insertInto(cmp, s, x) ==
    LET lower == {j \in 1..Len(s) : cmp[x, s[j]] < 0}
        pos == IF lower = {} THEN Len(s) + 1
               ELSE CHOOSE j \in lower : \A i \in lower : j <= i
    IN  SubSeq(s, 1, pos - 1) \o <<x>> \o SubSeq(s, pos, Len(s))

RECURSIVE sortWith(_, _)
sortWith(cmp, s) ==
    IF s = <<>> THEN <<>>
    ELSE insertInto(cmp, sortWith(cmp, SubSeq(s, 1, Len(s) - 1)), s[Len(s)])

\* pairs.map((_, i) => i)
indicesOf(ps) == [k \in 1..Len(ps) |-> k - 1]

sortedIndices(ps, st, d) ==
    LET I == 0..(Len(ps) - 1)
    IN  IF ~allHaveAtLeastOneCorrect(ps, st, d)
        THEN sortWith([a \in I, b \in I |-> cmpPhase1(ps, st, d, a, b)], indicesOf(ps))
        ELSE sortWith([a \in I, b \in I |-> cmpPhase2(ps, st, d, a, b)], indicesOf(ps))

\* candidates without the test i !== idx.
candidatesWithCurrent(ps, order, i0, blocked) ==
    SelectSeq(order, LAMBDA i : ps[i + 1] \notin blocked)

\* candidates without the cooldown test.
candidatesNoCooldown(ps, order, i0, blocked) ==
    SelectSeq(order, LAMBDA i : i # i0)

\* order.filter((i) => i !== idx && id != null && !set.has(id))
candidates(ps, order, i0, blocked) ==
    SelectSeq(order, LAMBDA i : i # i0 /\ ps[i + 1] \notin blocked)

\* The relaxation loop with pop() for shift(): the newest entry goes first.
RECURSIVE relaxSearchDropsNewest(_, _, _, _)
relaxSearchDropsNewest(ps, order, i0, relax) ==
    IF relax = <<>> THEN <<>>
    ELSE LET rest == SubSeq(relax, 1, Len(relax) - 1)
             cands == candidates(ps, order, i0, Range(rest))
         IN  IF cands # <<>> THEN <<cands[1]>>
             ELSE relaxSearchDropsNewest(ps, order, i0, rest)

\* The relaxation loop: drop the oldest entry and filter again, until a
\* candidate appears or nothing is left.  <<>> is null.
RECURSIVE relaxSearch(_, _, _, _)
relaxSearch(ps, order, i0, relax) ==
    IF relax = <<>> THEN <<>>
    ELSE LET rest == Tail(relax)
             cands == candidates(ps, order, i0, Range(rest))
         IN  IF cands # <<>> THEN <<cands[1]>>
             ELSE relaxSearch(ps, order, i0, rest)

\* nextIdx of goNextPrioritized without `?? idx`: order.find gives
\* undefined (shown as -1) when no other index exists.
nextIdxOfNoFallback(ps, st, d, i0, rec) ==
    LET order == sortedIndices(ps, st, d)
        baseCandidates == candidates(ps, order, i0, Range(rec))
        relaxed == relaxSearch(ps, order, i0, rec)
        others == SelectSeq(order, LAMBDA i : i # i0)
    IN  IF baseCandidates # <<>> THEN baseCandidates[1]
        ELSE IF relaxed # <<>> THEN relaxed[1]
        ELSE IF others # <<>> THEN others[1]
        ELSE 0 - 1

\* nextIdx of goNextPrioritized with a raw increment for the relaxation
\* loop and the fallback.
nextIdxOfRawStep(ps, st, d, i0, rec) ==
    LET order == sortedIndices(ps, st, d)
        baseCandidates == candidates(ps, order, i0, Range(rec))
    IN  IF baseCandidates # <<>> THEN baseCandidates[1] ELSE i0 + 1

\* nextIdx of goNextPrioritized without the relaxation loop and the
\* order.find fallback: the card stays when every other one is on cooldown.
nextIdxOfNoRelax(ps, st, d, i0, rec) ==
    LET order == sortedIndices(ps, st, d)
        baseCandidates == candidates(ps, order, i0, Range(rec))
    IN  IF baseCandidates # <<>> THEN baseCandidates[1] ELSE i0

\* nextIdx of goNextPrioritized, for a non-empty list.
nextIdxOf(ps, st, d, i0, rec) ==
    LET order == sortedIndices(ps, st, d)
        baseCandidates == candidates(ps, order, i0, Range(rec))
        relaxed == relaxSearch(ps, order, i0, rec)
        others == SelectSeq(order, LAMBDA i : i # i0)
    IN  IF baseCandidates # <<>> THEN baseCandidates[1]
        ELSE IF relaxed # <<>> THEN relaxed[1]
        ELSE IF others # <<>> THEN others[1]
        ELSE i0

\* pairs[idx]?.id ?? null, as a sequence of at most one id
idAt(ps, i) == IF i >= 0 /\ i < Len(ps) THEN <<ps[i + 1]>> ELSE <<>>

\* pushRecent without the splice of the earlier occurrence.
pushRecentKeepsOld(rec, id, n) ==
    LET arr == Append(rec, id)
    IN  SubSeq(arr, Max(1, Len(arr) - n + 1), Len(arr))

\* The body of pushRecent for a non-null id, with the capacity (COOLDOWN_N
\* in the program) as parameter n: splice out the earlier occurrence, push,
\* and shift from the front while longer than n.
pushRecentN(rec, id, n) ==
    LET without == SelectSeq(rec, LAMBDA x : x # id)
        arr == Append(without, id)
    IN  SubSeq(arr, Max(1, Len(arr) - n + 1), Len(arr))

pushRecent(rec, id) == pushRecentN(rec, id, COOLDOWN_N)

\* pushRecent(pairs[i]?.id ?? null) with capacity n: nothing for null.
pushRecentAtN(rec, ps, i, n) ==
    IF idAt(ps, i) = <<>> THEN rec ELSE pushRecentN(rec, idAt(ps, i)[1], n)

\* pushRecent(pairs[idx]?.id ?? null)
pushRecentAt(rec, ps, i) == pushRecentAtN(rec, ps, i, COOLDOWN_N)

\* recordOutcome that rebuilds the entry from the updated direction alone.
recordOutcomeDropsOtherDir(m, st, id, d, kind) ==
    LET cur == IF id \in DOMAIN st THEN st[id] ELSE zeroDirStat(m)
        curDir == cur[d]
        updated == IF kind = "correct"
                   THEN [correct |-> curDir.correct + 1, wrong |-> curDir.wrong]
                   ELSE [correct |-> curDir.correct, wrong |-> curDir.wrong + 1]
    IN  [x \in DOMAIN st \cup {id} |->
            IF x = id THEN [y \in DOMAIN cur |-> IF y = d THEN updated ELSE Zero]
            ELSE st[x]]

\* The setStats updater of mark / onMark.
recordOutcome(m, st, id, d, kind) ==
    LET cur == IF id \in DOMAIN st THEN st[id] ELSE zeroDirStat(m)
        curDir == cur[d]
        updated == IF kind = "correct"
                   THEN [correct |-> curDir.correct + 1, wrong |-> curDir.wrong]
                   ELSE [correct |-> curDir.correct, wrong |-> curDir.wrong + 1]
    IN  [x \in DOMAIN st \cup {id} |->
            IF x = id THEN [cur EXCEPT ![d] = updated] ELSE st[x]]

\* setIdx(0) in place of the priority pick: the first row of the list.
pickFirstListHead(ps, st, d) == 0

\* The standalone first-card selector of Nominalisation.
pickFirstIndexByPriority(ps, st, d) ==
    LET I == 0..(Len(ps) - 1)
        indices ==
            IF ~allHaveAtLeastOneCorrect(ps, st, d)
            THEN sortWith([a \in I, b \in I |-> cmpPhase1(ps, st, d, a, b)], indicesOf(ps))
            ELSE sortWith([a \in I, b \in I |-> cmpPhase2(ps, st, d, a, b)], indicesOf(ps))
    IN  IF indices # <<>> THEN indices[1] ELSE 0

(***************************************************************************)
(* Content: the item ids of working set `key`.  Nominalisation derives an  *)
(* id from the part number and the line; NewsVocab's local topics from     *)
(* the topic id (baseId - i for the i-th file) and the row.                *)
(***************************************************************************)
\* loadPart: id = n * 1_000_000 + lineIdx
nomItemId(n, lineIdx) == n * 1000000 + lineIdx

\* listLocalTopics: the i-th local file is topic baseId - i
baseId == -1000
localTopicId(i) == baseId - i

LOCAL_PAIR_BLOCK == 100000
makeLocalPairId(topicId, rowIndex) == topicId * LOCAL_PAIR_BLOCK - (rowIndex + 1)

\* loadGroup: id = catCode * 1_000_000 + part * 10_000 + (lineIdx + 1)
verbeItemId(catCode, part, lineIdx) == catCode * 1000000 + part * 10000 + (lineIdx + 1)

\* The id of row `row` of part `key` (of the category "normal" in Verbe), or
\* of the key-th local topic.
itemId(m, key, row) ==
    IF m = "nom" THEN nomItemId(key, row)
    ELSE IF m = "verbe" THEN verbeItemId(1, key, row)
    ELSE makeLocalPairId(localTopicId(key - 1), row)

\* A part / topic whose file holds no row.
EmptyKey == 3

\* Part / topic 1 has three rows, part / topic 2 has two.
Content(m, key) ==
    IF key = 1 THEN <<itemId(m, 1, 0), itemId(m, 1, 1), itemId(m, 1, 2)>>
    ELSE IF key = 2 THEN <<itemId(m, 2, 0), itemId(m, 2, 1)>>
    ELSE <<>>

\* data.slice(0, LIMIT_PAIRS)
limit(m, data) ==
    SubSeq(data, 1, Min(Len(data), IF m = "nom" THEN LIMIT_PAIRS_NOM
                                   ELSE IF m = "verbe" THEN LIMIT_PAIRS_VERBE
                                   ELSE LIMIT_PAIRS_NEWS))

Keys == {1, 2}

(***************************************************************************)
(* Direct calls of the scheduler functions on bounded inputs.              *)
(***************************************************************************)
NoRes == [op |-> "none"]

\* The first n items of a list of MaxItems + 1 distinct ids.
Row(n) == [k \in 1..n |-> itemId("news", 1, k - 1)]
ForeignId == itemId("news", 2, 0)

Tallies(maxc) == [correct : 0..maxc, wrong : 0..maxc]

\* A stats table over the items `ps`: entry k is absent when hole[k], and
\* holds `act[k]` for the direction d and `oth` for the other direction.
TableOf(ps, d, act, oth, hole) ==
    [id \in {ps[k] : k \in {j \in 1..Len(ps) : ~hole[j]}} |->
        LET k == CHOOSE j \in 1..Len(ps) : ps[j] = id
        IN  [x \in Dirs("news") |-> IF x = d THEN act[k] ELSE oth]]

RECURSIVE NoDupSeqs(_, _)
NoDupSeqs(S, n) ==
    IF n = 0 THEN {<<>>}
    ELSE LET shorter == NoDupSeqs(S, n - 1)
             longer == {Append(s, x) : s \in shorter, x \in S}
         IN  shorter \cup {s \in longer : \A i, j \in 1..Len(s) : i < j => s[i] # s[j]}

InertSession ==
    /\ mod = "news"
    /\ uid = ""
    /\ selected = 1
    /\ revealed = FALSE
    /\ ready = TRUE
    /\ loadingPairs = FALSE
    /\ loads = {}
    /\ marks = {}
    /\ srvStats = [id \in {} |-> 0]
    /\ srvProg = [k \in {} |-> 0]
    /\ budget = [marks |-> 0, reloads |-> 0, navs |-> 0]
    /\ res = NoRes

\* The tables of the specification's scenarios B and C (three items).
ScenarioB == <<[correct |-> 0, wrong |-> 3], [correct |-> 1, wrong |-> 0],
               [correct |-> 1, wrong |-> 1]>>
ScenarioC == <<[correct |-> 1, wrong |-> 3], [correct |-> 3, wrong |-> 0],
               [correct |-> 1, wrong |-> 1]>>

\* Inputs of the priority sort: a list, a direction and a stats table whose
\* tallies go up to MaxCount (and the two scenario tables); the table is
\* either complete, with or without answers in the other direction, or
\* lacks the entries of the items never answered.
InitOrder ==
    /\ InertSession
    /\ \E n \in 1..MaxItems : pairs = Row(n)
    /\ dir \in Dirs("news")
    /\ \E act \in [1..Len(pairs) -> Tallies(MaxCount)] \cup
                    (IF Len(pairs) = Len(ScenarioB) THEN {ScenarioB, ScenarioC} ELSE {}),
          shape \in {"full", "other", "sparse"} :
          /\ shape # "other" => dir = "JA2FR"
          /\ stats = TableOf(pairs, dir, act,
                             IF shape = "other" THEN [correct |-> 1, wrong |-> 0] ELSE Zero,
                             [k \in 1..Len(pairs) |-> shape = "sparse" /\ act[k] = Zero])
    /\ idx = 0
    /\ recent = <<>>

CallSortedIndices ==
    /\ res = NoRes
    /\ res' = [op |-> "sortedIndices", val |-> sortedIndices(pairs, stats, dir)]
    /\ UNCHANGED <<mod, uid, selected, dir, pairs, stats, idx, revealed, recent, ready,
                   loadingPairs, loads, marks, srvStats, srvProg, budget>>

\* Between two calls: one more answer for item k in the active direction
\* (the setStats updater).
Answer(k, kind) ==
    /\ res # NoRes
    /\ k \in 1..Len(pairs)
    /\ IF kind = "correct" THEN statFor(stats, pairs[k], dir).correct < MaxCount
       ELSE statFor(stats, pairs[k], dir).wrong < MaxCount
    /\ stats' = recordOutcome(mod, stats, pairs[k], dir, kind)
    /\ res' = NoRes
    /\ UNCHANGED <<mod, uid, selected, dir, pairs, idx, revealed, recent, ready,
                   loadingPairs, loads, marks, srvStats, srvProg, budget>>

NextOrder ==
    \/ CallSortedIndices
    \/ \E k \in 1..MaxItems, kind \in {"correct", "wrong"} : Answer(k, kind)

SpecOrder == InitOrder /\ [][NextOrder]_vars

\* Between two calls of sortedIndices: the answer is revealed, the id of
\* the card is pushed onto the recency queue and the last card becomes the
\* current one; list, table and direction stay.
Disturb ==
    /\ res.op = "sortedIndices"
    /\ idx' = Len(pairs) - 1
    /\ recent' = pushRecentAt(recent, pairs, idx)
    /\ revealed' = TRUE
    /\ res' = [op |-> "disturbed", first |-> res.val]
    /\ UNCHANGED <<mod, uid, selected, dir, pairs, stats, ready, loadingPairs, loads,
                   marks, srvStats, srvProg, budget>>

\* The second call.
CallSortedIndicesAgain ==
    /\ res.op = "disturbed"
    /\ res' = [op |-> "sortedIndicesAgain", first |-> res.first,
               val |-> sortedIndices(pairs, stats, dir)]
    /\ UNCHANGED <<mod, uid, selected, dir, pairs, stats, idx, revealed, recent, ready,
                   loadingPairs, loads, marks, srvStats, srvProg, budget>>

NextTwice ==
    \/ CallSortedIndices
    \/ Disturb
    \/ CallSortedIndicesAgain

\* The inputs of SpecOrder in one direction.
InitTwice == InitOrder /\ dir = "JA2FR"

SpecTwice == InitTwice /\ [][NextTwice]_vars

\* One tally of each priority class of phase 1, two of them with a correct answer.
NextTallies == {Zero, [correct |-> 0, wrong |-> 1], [correct |-> 1, wrong |-> 0],
                [correct |-> 1, wrong |-> 1]}

\* Inputs of the next-card choice: a list, a stats table, the current index
\* (from -1 to one past the end) and a recency queue without duplicates,
\* which may hold the id of an item of another working set.
InitNext ==
    /\ InertSession
    /\ \E n \in 1..MaxItems : pairs = Row(n)
    /\ dir = "JA2FR"
    /\ \E act \in [1..Len(pairs) -> NextTallies],
          oth \in {Zero, [correct |-> 1, wrong |-> 0]},
          sparse \in BOOLEAN :
            stats = TableOf(pairs, dir, act, oth,
                            [k \in 1..Len(pairs) |-> sparse /\ act[k] = Zero])
    /\ idx \in (0 - 1)..Len(pairs)
    /\ recent \in NoDupSeqs(Range(pairs) \cup {ForeignId}, MaxRecent)

\* goNextPrioritized, past its empty-list guard: the index it passes to
\* setIdx, and recentRef.current after its pushRecent(currentId).
CallGoNext ==
    /\ res = NoRes
    /\ Len(pairs) > 0
    /\ res' = [op |-> "goNext", val |-> nextIdxOf(pairs, stats, dir, idx, recent),
               recent |-> pushRecentAt(recent, pairs, idx)]
    /\ UNCHANGED <<mod, uid, selected, dir, pairs, stats, idx, revealed, recent, ready,
                   loadingPairs, loads, marks, srvStats, srvProg, budget>>

\* The setStats updater of mark, for the card at idx.
CallRecordOutcome(kind) ==
    /\ res = NoRes
    /\ idAt(pairs, idx) # <<>>
    /\ res' = [op |-> "recordOutcome", kind |-> kind,
               val |-> recordOutcome(mod, stats, idAt(pairs, idx)[1], dir, kind)]
    /\ UNCHANGED <<mod, uid, selected, dir, pairs, stats, idx, revealed, recent, ready,
                   loadingPairs, loads, marks, srvStats, srvProg, budget>>

\* pickFirstIndexByPriority on the list and the table.
CallPickFirst ==
    /\ res = NoRes
    /\ res' = [op |-> "pickFirst", val |-> pickFirstIndexByPriority(pairs, stats, dir)]
    /\ UNCHANGED <<mod, uid, selected, dir, pairs, stats, idx, revealed, recent, ready,
                   loadingPairs, loads, marks, srvStats, srvProg, budget>>

NextNext ==
    \/ CallGoNext
    \/ CallPickFirst
    \/ \E kind \in {"correct", "wrong"} : CallRecordOutcome(kind)

SpecNext == InitNext /\ [][NextNext]_vars

\* An empty recency queue before any call of pushRecent.
InitRecent ==
    /\ InertSession
    /\ pairs = Row(MaxItems)
    /\ dir = "JA2FR"
    /\ stats = [id \in {} |-> 0]
    /\ idx = 0
    /\ recent = <<>>

\* pushRecent(pairs[i]?.id ?? null) on a queue of capacity n, the same n in
\* every call; `last` is the latest non-null id pushed.
CallPushRecent(i, n) ==
    /\ IF res = NoRes THEN TRUE ELSE res.cap = n
    /\ recent' = pushRecentAtN(recent, pairs, i, n)
    /\ res' = [op |-> "pushRecent", cap |-> n, id |-> idAt(pairs, i), before |-> recent,
               last |-> IF idAt(pairs, i) # <<>> THEN idAt(pairs, i)
                        ELSE IF res = NoRes THEN <<>> ELSE res.last]
    /\ UNCHANGED <<mod, uid, selected, dir, pairs, stats, idx, revealed, ready,
                   loadingPairs, loads, marks, srvStats, srvProg, budget>>

NextRecent ==
    \E i \in (0 - 1)..(MaxItems - 1), n \in 1..(MaxRecent + 1) : CallPushRecent(i, n)

SpecRecent == InitRecent /\ [][NextRecent]_vars

(***************************************************************************)
(* The page component: its state after mount, its effects and handlers,    *)
(* and the stores behind them.  A handler or an effect runs to its first   *)
(* await as one step; everything after an await is a later step that sees  *)
(* the variables of the render it was created in, the live recentRef and   *)
(* the live stores.  State updates of one step are batched.                *)
(***************************************************************************)
NoUid == ""
User == "u"
NoKey == 0
NoTable == [id \in {} |-> 0]
Modules == {"nom", "news", "verbe"}

\* Nominalisation and Verbe clear the display in an effect on the selection.
hasResetEffect(m) == m # "news"

primaryDir(m) == IF m = "nom" THEN "BASE2NOM" ELSE "JA2FR"
ProgKeys(m) == (Keys \cup {EmptyKey}) \X Dirs(m)

\* An earlier visit of working set 1 by the user: attempts for its first
\* and third item, none for the second, and the third as the last position.
HistoryStats(m) ==
    [id \in {Content(m, 1)[1], Content(m, 1)[3]} |->
        [d \in Dirs(m) |->
            IF d # primaryDir(m) THEN Zero
            ELSE IF id = Content(m, 1)[1] THEN [correct |-> 1, wrong |-> 0]
            ELSE [correct |-> 1, wrong |-> 1]]]
NoProgress(m) == [ck \in ProgKeys(m) |-> 0]
HistoryProg(m) == [NoProgress(m) EXCEPT ![<<1, primaryDir(m)>>] = Content(m, 1)[3]]

Init ==
    /\ mod \in Modules
    /\ uid = NoUid
    /\ selected = NoKey
    /\ dir = primaryDir(mod)
    /\ pairs = <<>>
    /\ stats = NoTable
    /\ idx = 0
    /\ revealed = FALSE
    /\ recent = <<>>
    /\ ready = FALSE
    /\ loadingPairs = FALSE
    /\ loads = {}
    /\ marks = {}
    /\ \E history \in BOOLEAN :
          /\ srvStats = IF history THEN HistoryStats(mod) ELSE NoTable
          /\ srvProg = IF history THEN HistoryProg(mod) ELSE NoProgress(mod)
    /\ budget = [marks |-> MaxMarks, reloads |-> MaxReloads, navs |-> MaxNavs]
    /\ res = NoRes

\* for (const p of limited) next[p.id] = zero
zeroInit(m, limited) == [id \in Range(limited) |-> zeroDirStat(m)]

\* The counts the statistics store returns for `ids` to the signed-in user.
fetchServerCounts(srv, u, ids) ==
    IF u = NoUid THEN NoTable
    ELSE [id \in {x \in DOMAIN srv : x \in ids} |-> srv[id]]

\* mergedStats / next: the server's entry for an item, zeros without one.
mergeCounts(m, limited, serverMap) ==
    [id \in Range(limited) |->
        IF id \in DOMAIN serverMap THEN serverMap[id] ELSE zeroDirStat(m)]

\* attempts.insert: one more attempt of the signed-in user.
insertAttempt(m, srv, u, id, d, kind) ==
    IF u = NoUid THEN srv
    ELSE LET cur == IF id \in DOMAIN srv THEN srv[id] ELSE zeroDirStat(m)
             upd == IF kind = "correct"
                    THEN [correct |-> cur[d].correct + 1, wrong |-> cur[d].wrong]
                    ELSE [correct |-> cur[d].correct, wrong |-> cur[d].wrong + 1]
         IN  [x \in DOMAIN srv \cup {id} |->
                 IF x = id THEN [cur EXCEPT ![d] = upd] ELSE srv[x]]

\* loadProgress: the last item id stored for the context, 0 when none.
loadProgress(prog, u, key, d) == IF u = NoUid THEN 0 ELSE prog[<<key, d>>]

\* saveProgress effect that writes only while no position is stored.
saveProgressFirstOnly(prog, ps, i, sel, u, d) ==
    IF idAt(ps, i) # <<>> /\ sel # NoKey /\ u # NoUid /\ prog[<<sel, d>>] = 0
    THEN [prog EXCEPT ![<<sel, d>>] = idAt(ps, i)[1]]
    ELSE prog

\* The saveProgress effect of a render with card ps[i], selection sel, uid u
\* and direction d: an upsert of the card's id under (sel, d).
saveProgressEffect(prog, ps, i, sel, u, d) ==
    IF idAt(ps, i) # <<>> /\ sel # NoKey /\ u # NoUid
    THEN [prog EXCEPT ![<<sel, d>>] = idAt(ps, i)[1]]
    ELSE prog

\* Array.prototype.findIndex on the ids.
findIndex(ps, id) ==
    IF \E k \in 1..Len(ps) : ps[k] = id
    THEN (CHOOSE k \in 1..Len(ps) : ps[k] = id /\ \A j \in 1..(k - 1) : ps[j] # id) - 1
    ELSE -1

\* A run of the load effect, suspended at its first await.
newLoad(key, u, d) ==
    [key |-> key, uid |-> u, dir |-> d, pc |-> "content", merged |-> NoTable]

\* useState processing (Verbe): true from the setProcessing(true) of a mark
\* to the setProcessing(false) after its goNextPrioritized; a mark returns at
\* once while it is true, so it is true exactly while a mark is suspended.
processing == mod = "verbe" /\ marks # {}

\* The `disabled` prop of Verbe's DrillView (reveal and mark buttons).
disabled == mod = "verbe" /\ (uid = NoUid \/ processing)

\* The drill view with its buttons is rendered and shows a card.
ButtonsVisible ==
    /\ selected # NoKey
    /\ idAt(pairs, idx) # <<>>
    /\ mod = "nom" => (ready /\ ~loadingPairs /\ Len(pairs) > 0 /\ idx >= 0)
    /\ mod = "verbe" => (~loadingPairs /\ Len(pairs) > 0 /\ idx >= 0)

\* hotkeysEnabled without its test of pairs.length.
hotkeysEnabledOnEmpty == selected # NoKey /\ ~loadingPairs /\ ~processing

\* The `enabled` argument of useDrillHotkeys.
hotkeysEnabled == selected # NoKey /\ ~loadingPairs /\ Len(pairs) > 0 /\ ~processing

Paths == {"button", "hotkey"}
CanUse(path) == IF path = "button" THEN ButtonsVisible ELSE hotkeysEnabled

\* The keys S / F also calling onCorrect / onWrong on a hidden answer.
markOfferedByKeyAlways(rev, path) == path = "hotkey" \/ rev

\* The mark buttons are rendered only with the answer (`!revealed ? reveal
\* button : answer and mark buttons`), and the keys S / F call onCorrect /
\* onWrong only `if (revealed)`.
markOffered(rev, path) == rev

\* markGuard without the uid tests of Verbe (in mark and on its buttons).
markGuardNoUid(path) ==
    /\ CanUse(path)
    /\ path = "button" => ~(mod = "verbe" /\ processing)
    /\ mod = "verbe" => ~processing
    /\ idAt(pairs, idx) # <<>>

\* What a mark needs besides a revealed answer: the control is there and
\* enabled, mark() of Verbe passes its uid and processing guards, and there
\* is a card.
markGuard(path) ==
    /\ CanUse(path)
    /\ path = "button" => ~disabled
    /\ mod = "verbe" => (uid # NoUid /\ ~processing)
    /\ idAt(pairs, idx) # <<>>

\* setSelectedPart(k) / setSelectedTopicId(k) with the effects of the commit.
Select(k) ==
    /\ k # selected
    /\ budget.reloads > 0
    /\ Cardinality(loads) < MaxLoads
    /\ selected' = k
    /\ loads' = loads \cup {newLoad(k, uid, dir)}
    /\ loadingPairs' = TRUE
    /\ srvProg' = saveProgressEffect(srvProg, pairs, idx, k, uid, dir)
    /\ IF hasResetEffect(mod)
       THEN /\ pairs' = <<>>
            /\ stats' = NoTable
            /\ ready' = FALSE
            /\ idx' = -1
            /\ revealed' = FALSE
            /\ recent' = <<>>
       ELSE UNCHANGED <<pairs, stats, ready, idx, revealed, recent>>
    /\ budget' = [budget EXCEPT !.reloads = @ - 1]
    /\ UNCHANGED <<mod, uid, dir, marks, srvStats, res>>

\* setUid(u) from getSession / onAuthStateChange; the load effect and the
\* saveProgress effect depend on uid.
AuthChange(u) ==
    /\ u # uid
    /\ budget.reloads > 0
    /\ selected # NoKey => Cardinality(loads) < MaxLoads
    /\ uid' = u
    /\ loads' = IF selected = NoKey THEN loads
                ELSE loads \cup {newLoad(selected, u, dir)}
    /\ loadingPairs' = IF selected # NoKey /\ mod = "news" THEN TRUE ELSE loadingPairs
    /\ srvProg' = saveProgressEffect(srvProg, pairs, idx, selected, u, dir)
    /\ budget' = [budget EXCEPT !.reloads = @ - 1]
    /\ UNCHANGED <<mod, selected, dir, pairs, stats, idx, revealed, recent, ready,
                   marks, srvStats, res>>

\* The direction buttons of NewsVocab and Verbe: setDir(d);
\* setRevealed(false).  The load effect of NewsVocab starts with
\* setLoadingPairs(true), that of Verbe does not.
SetDir(d) ==
    /\ mod # "nom"
    /\ budget.reloads > 0
    /\ (selected # NoKey /\ d # dir) => Cardinality(loads) < MaxLoads
    /\ dir' = d
    /\ revealed' = FALSE
    /\ loads' = IF selected = NoKey \/ d = dir THEN loads
                ELSE loads \cup {newLoad(selected, uid, d)}
    /\ loadingPairs' = IF mod = "news" /\ selected # NoKey /\ d # dir THEN TRUE
                       ELSE loadingPairs
    /\ srvProg' = saveProgressEffect(srvProg, pairs, idx, selected, uid, d)
    /\ budget' = [budget EXCEPT !.reloads = @ - 1]
    /\ UNCHANGED <<mod, uid, selected, pairs, stats, idx, recent, ready, marks,
                   srvStats, res>>

\* The load effect after `await loadPart` / `await loadLocalPairs`.
LoadContent(t) ==
    /\ t.pc = "content"
    /\ LET limited == limit(mod, Content(mod, t.key))
           done == mod = "news" /\ t.uid = NoUid
       IN  /\ pairs' = limited
           /\ recent' = IF mod = "news" THEN <<>> ELSE recent
           /\ stats' = IF done THEN zeroInit(mod, limited) ELSE stats
           /\ loadingPairs' = IF done THEN FALSE ELSE loadingPairs
           /\ loads' = IF done THEN loads \ {t}
                       ELSE (loads \ {t}) \cup {[t EXCEPT !.pc = "counts"]}
           /\ srvProg' = saveProgressEffect(srvProg, limited, idx, selected, uid, dir)
    /\ UNCHANGED <<mod, uid, selected, dir, idx, revealed, ready, marks, srvStats,
                   budget, res>>

\* The load effect after `await fetchServerCounts` / `await
\* fetchCountsByDirMerged`; a failed fetch yields no counts.
LoadCounts(t, ok) ==
    /\ t.pc = "counts"
    /\ LET limited == limit(mod, Content(mod, t.key))
           serverMap == IF ok THEN fetchServerCounts(srvStats, uid, Range(limited))
                        ELSE NoTable
           merged == mergeCounts(mod, limited, serverMap)
           first == pickFirstIndexByPriority(limited, merged, t.dir)
           done == t.uid = NoUid
       IN  /\ stats' = merged
           /\ idx' = IF done THEN first ELSE idx
           /\ revealed' = IF done THEN FALSE ELSE revealed
           /\ ready' = IF done /\ mod = "nom" THEN TRUE ELSE ready
           /\ loadingPairs' = IF done THEN FALSE ELSE loadingPairs
           /\ loads' = IF done THEN loads \ {t}
                       ELSE (loads \ {t}) \cup
                                {[t EXCEPT !.pc = "progress",
                                           !.merged = IF mod # "news" THEN merged ELSE NoTable]}
           /\ srvProg' = saveProgressEffect(srvProg, pairs,
                                            IF done THEN first ELSE idx,
                                            selected, uid, dir)
    /\ UNCHANGED <<mod, uid, selected, dir, pairs, recent, marks, srvStats, budget, res>>

\* The load effect after `await loadProgressSrv`, which returned a row, or
\* null, or threw.
LoadProgress(t, ok) ==
    /\ t.pc = "progress"
    /\ LET data == Content(mod, t.key)
           limited == limit(mod, data)
           last == IF ok THEN loadProgress(srvProg, uid, t.key, t.dir) ELSE 0
           nextIdx ==
               IF mod # "news"
               THEN IF last # 0 /\ findIndex(limited, last) >= 0
                    THEN findIndex(limited, last)
                    ELSE pickFirstIndexByPriority(limited, t.merged, t.dir)
               ELSE IF ~ok THEN idx
               ELSE IF last # 0
                    THEN IF findIndex(data, last) >= 0 THEN findIndex(data, last) ELSE idx
                    ELSE 0
       IN  /\ idx' = nextIdx
           /\ revealed' = IF mod = "news" /\ ~ok THEN revealed ELSE FALSE
           /\ srvProg' = saveProgressEffect(srvProg, pairs, nextIdx, selected, uid, dir)
    /\ ready' = IF mod = "nom" THEN TRUE ELSE ready
    /\ loadingPairs' = FALSE
    /\ loads' = loads \ {t}
    /\ UNCHANGED <<mod, uid, selected, dir, pairs, stats, recent, marks, srvStats,
                   budget, res>>

\* setRevealed(true): the reveal button, or Space while the answer is hidden.
Reveal(path) ==
    /\ ~revealed
    /\ CanUse(path)
    /\ path = "button" => ~disabled
    /\ revealed' = TRUE
    /\ UNCHANGED <<mod, uid, selected, dir, pairs, stats, idx, recent, ready,
                   loadingPairs, loads, marks, srvStats, srvProg, budget, res>>

\* mark / onMark up to `await recordAttemptSrv`: the buttons exist and the
\* keys S / F act only while the answer is revealed.
MarkBegin(kind, path) ==
    /\ markOffered(revealed, path)
    /\ markGuard(path)
    /\ budget.marks > 0
    /\ stats' = recordOutcome(mod, stats, idAt(pairs, idx)[1], dir, kind)
    /\ marks' = marks \cup {[pairs |-> pairs, idx |-> idx, stats |-> stats,
                             dir |-> dir, kind |-> kind]}
    /\ budget' = [budget EXCEPT !.marks = @ - 1]
    /\ UNCHANGED <<mod, uid, selected, dir, pairs, idx, revealed, recent, ready,
                   loadingPairs, loads, srvStats, srvProg, res>>

\* mark / onMark without its try / catch: a rejected write ends the handler
\* before goNextPrioritized().
MarkEndThrows(m, saved) ==
    /\ LET nextIdx == IF saved THEN nextIdxOf(m.pairs, m.stats, m.dir, m.idx, recent)
                      ELSE idx
       IN  /\ idx' = nextIdx
           /\ srvProg' = saveProgressEffect(srvProg, pairs, nextIdx, selected, uid, dir)
    /\ recent' = IF saved THEN pushRecentAt(recent, m.pairs, m.idx) ELSE recent
    /\ revealed' = IF saved THEN FALSE ELSE revealed
    /\ srvStats' = IF saved
                   THEN insertAttempt(mod, srvStats, uid, m.pairs[m.idx + 1], m.dir, m.kind)
                   ELSE srvStats
    /\ marks' = marks \ {m}
    /\ UNCHANGED <<mod, uid, selected, dir, pairs, stats, ready, loadingPairs, loads,
                   budget, res>>

\* mark / onMark after `await recordAttemptSrv`, which stored the attempt
\* or not: goNextPrioritized() of the render the handler belongs to.
MarkEnd(m, saved) ==
    /\ LET nextIdx == nextIdxOf(m.pairs, m.stats, m.dir, m.idx, recent)
       IN  /\ idx' = nextIdx
           /\ srvProg' = saveProgressEffect(srvProg, pairs, nextIdx, selected, uid, dir)
    /\ recent' = pushRecentAt(recent, m.pairs, m.idx)
    /\ revealed' = FALSE
    /\ srvStats' = IF saved
                   THEN insertAttempt(mod, srvStats, uid, m.pairs[m.idx + 1], m.dir, m.kind)
                   ELSE srvStats
    /\ marks' = marks \ {m}
    /\ UNCHANGED <<mod, uid, selected, dir, pairs, stats, ready, loadingPairs, loads,
                   budget, res>>

\* The next button (onManualNext; onNext in NewsVocab, disabled on its last
\* card) and the keys ArrowRight, C and Space on a revealed card (onAutoNext;
\* onNext in NewsVocab).
GoNext(path) ==
    /\ CanUse(path)
    /\ Len(pairs) > 0
    /\ budget.navs > 0
    /\ budget' = [budget EXCEPT !.navs = @ - 1]
    /\ (mod = "news" /\ path = "button") => idx < Len(pairs) - 1
    /\ LET raw == mod # "news" /\ path = "button"
           step == mod = "news" /\ idx < Len(pairs) - 1
           nextIdx == IF raw THEN (IF idx + 1 >= Len(pairs) THEN 0 ELSE idx + 1)
                      ELSE IF step THEN idx + 1
                      ELSE nextIdxOf(pairs, stats, dir, idx, recent)
       IN  /\ idx' = nextIdx
           /\ srvProg' = saveProgressEffect(srvProg, pairs, nextIdx, selected, uid, dir)
    /\ recent' = pushRecentAt(recent, pairs, idx)
    /\ revealed' = FALSE
    /\ UNCHANGED <<mod, uid, selected, dir, pairs, stats, ready, loadingPairs, loads,
                   marks, srvStats, res>>

\* onPrev without its setRevealed(false).
GoPrevKeepsFace(path) ==
    /\ CanUse(path)
    /\ budget.navs > 0
    /\ budget' = [budget EXCEPT !.navs = @ - 1]
    /\ idx > 0
    /\ idx' = Max(0, idx - 1)
    /\ srvProg' = saveProgressEffect(srvProg, pairs, Max(0, idx - 1), selected, uid, dir)
    /\ UNCHANGED <<mod, uid, selected, dir, pairs, stats, revealed, recent, ready,
                   loadingPairs, loads, marks, srvStats, res>>

\* onPrev: the previous button (disabled at idx 0) and the keys ArrowLeft, X.
GoPrev(path) ==
    /\ CanUse(path)
    /\ budget.navs > 0
    /\ budget' = [budget EXCEPT !.navs = @ - 1]
    /\ idx > 0
    /\ idx' = Max(0, idx - 1)
    /\ revealed' = FALSE
    /\ srvProg' = saveProgressEffect(srvProg, pairs, Max(0, idx - 1), selected, uid, dir)
    /\ UNCHANGED <<mod, uid, selected, dir, pairs, stats, recent, ready, loadingPairs,
                   loads, marks, srvStats, res>>

Next ==
    \/ \E k \in Keys : Select(k)
    \/ \E u \in {NoUid, User} : AuthChange(u)
    \/ \E d \in Dirs(mod) : SetDir(d)
    \/ \E t \in loads : LoadContent(t)
    \/ \E t \in loads, ok \in BOOLEAN : LoadCounts(t, ok)
    \/ \E t \in loads, ok \in BOOLEAN : LoadProgress(t, ok)
    \/ \E path \in Paths : Reveal(path)
    \/ \E kind \in {"correct", "wrong"}, path \in Paths : MarkBegin(kind, path)
    \/ \E m \in marks, saved \in BOOLEAN : MarkEnd(m, saved)
    \/ \E path \in Paths : GoNext(path)
    \/ \E path \in Paths : GoPrev(path)

Spec == Init /\ [][Next]_vars

(***************************************************************************)
(* One session: the page right after the user, signed in or not, chose     *)
(* working set k, and from there the load / restore and the drill          *)
(* handlers, with no further selection, direction or auth change.          *)
(***************************************************************************)
InitDrillOn(k) ==
    /\ mod \in Modules
    /\ uid \in {NoUid, User}
    /\ selected = k
    /\ dir = primaryDir(mod)
    /\ pairs = <<>>
    /\ stats = NoTable
    /\ idx = IF hasResetEffect(mod) THEN -1 ELSE 0
    /\ revealed = FALSE
    /\ recent = <<>>
    /\ ready = FALSE
    /\ loadingPairs = TRUE
    /\ loads = {newLoad(selected, uid, dir)}
    /\ marks = {}
    /\ \E history \in BOOLEAN :
          /\ srvStats = IF history THEN HistoryStats(mod) ELSE NoTable
          /\ srvProg = IF history THEN HistoryProg(mod) ELSE NoProgress(mod)
    /\ budget = [marks |-> MaxDrillMarks, reloads |-> 0, navs |-> MaxNavs]
    /\ res = NoRes

\* Working set 1 (three items) and working set 2 (two items).
InitDrill == InitDrillOn(1)
InitDrillTwo == InitDrillOn(2)

NextDrill ==
    \/ \E t \in loads : LoadContent(t)
    \/ \E t \in loads, ok \in BOOLEAN : LoadCounts(t, ok)
    \/ \E t \in loads, ok \in BOOLEAN : LoadProgress(t, ok)
    \/ \E path \in Paths : Reveal(path)
    \/ \E kind \in {"correct", "wrong"}, path \in Paths : MarkBegin(kind, path)
    \/ \E m \in marks, saved \in BOOLEAN : MarkEnd(m, saved)
    \/ \E path \in Paths : GoNext(path)
    \/ \E path \in Paths : GoPrev(path)

SpecDrill == InitDrill /\ [][NextDrill]_vars
SpecDrillTwo == InitDrillTwo /\ [][NextDrill]_vars

\* Working set 2 or the working set without items.
InitDrillEmpty == InitDrillOn(2) \/ InitDrillOn(EmptyKey)
SpecDrillEmpty == InitDrillEmpty /\ [][NextDrill]_vars

(***************************************************************************)
(* onPrev called on its own, whatever the controls offer: on every index   *)
(* from -1 (undetermined) to one past the end, with the answer hidden or   *)
(* revealed.                                                               *)
(***************************************************************************)
\* setIdx((v) => Math.max(0, v - 1)) without the guard `if (idx <= 0) return`.
onPrevIdxUnguarded(i) == Max(0, i - 1)

\* The index after onPrev.
onPrevIdx(i) == IF i <= 0 THEN i ELSE Max(0, i - 1)

InitPrev ==
    /\ mod = "news"
    /\ uid = ""
    /\ selected = 1
    /\ ready = TRUE
    /\ loadingPairs = FALSE
    /\ loads = {}
    /\ marks = {}
    /\ srvStats = [id \in {} |-> 0]
    /\ srvProg = [k \in {} |-> 0]
    /\ budget = [marks |-> 0, reloads |-> 0, navs |-> 0]
    /\ res = NoRes
    /\ revealed \in BOOLEAN
    /\ \E n \in 1..MaxItems : pairs = Row(n)
    /\ dir = "JA2FR"
    /\ \E act \in [1..Len(pairs) -> {Zero, [correct |-> 1, wrong |-> 0]}] :
          stats = TableOf(pairs, dir, act, Zero, [k \in 1..Len(pairs) |-> FALSE])
    /\ idx \in (0 - 1)..Len(pairs)
    /\ recent \in NoDupSeqs(Range(pairs), COOLDOWN_N)

\* onPrev: if (idx <= 0) return; setIdx(...); setRevealed(false).
CallOnPrev ==
    /\ res = NoRes
    /\ idx' = onPrevIdx(idx)
    /\ revealed' = IF idx <= 0 THEN revealed ELSE FALSE
    /\ res' = [op |-> "onPrev"]
    /\ UNCHANGED <<mod, uid, selected, dir, pairs, stats, recent, ready, loadingPairs,
                   loads, marks, srvStats, srvProg, budget>>

NextPrev == CallOnPrev

SpecPrev == InitPrev /\ [][NextPrev]_vars

(***************************************************************************)
(* A session navigated by marks alone: the load of a signed-in user is     *)
(* through, the table holds the restored tallies, some card is shown with  *)
(* the recency queue empty, and only the reveal and mark handlers run.     *)
(***************************************************************************)
\* The restored tally of an item: never answered, one wrong answer or one
\* correct answer.
MarkTallies == {Zero, [correct |-> 0, wrong |-> 1], [correct |-> 1, wrong |-> 0]}

InitMarks ==
    /\ mod = "news"
    /\ uid = User
    /\ selected = 1
    /\ dir = primaryDir(mod)
    /\ \E n \in 3..MaxItems : pairs = Row(n)
    /\ \E act \in [1..Len(pairs) -> MarkTallies] :
          stats = TableOf(pairs, dir, act, Zero, [k \in 1..Len(pairs) |-> FALSE])
    /\ idx \in 0..(Len(pairs) - 1)
    /\ revealed = FALSE
    /\ recent = <<>>
    /\ ready = TRUE
    /\ loadingPairs = FALSE
    /\ loads = {}
    /\ marks = {}
    /\ srvStats = stats
    /\ srvProg = [NoProgress(mod) EXCEPT ![<<selected, dir>>] = pairs[idx + 1]]
    /\ budget = [marks |-> MaxDrillMarks, reloads |-> 0, navs |-> 0]
    /\ res = NoRes

NextMarks ==
    \/ \E path \in Paths : Reveal(path)
    \/ \E kind \in {"correct", "wrong"}, path \in Paths : MarkBegin(kind, path)
    \/ \E m \in marks, saved \in BOOLEAN : MarkEnd(m, saved)

SpecMarks == InitMarks /\ [][NextMarks]_vars

(***************************************************************************)
(* Properties of the scheduler functions.                                  *)
(***************************************************************************)
\* The tally of the item at index i in the active direction, 0/0 when the
\* table has no entry for it.
TallyAt(i) ==
    IF pairs[i + 1] \in DOMAIN stats THEN stats[pairs[i + 1]][dir] ELSE Zero
CorrectAt(i) == TallyAt(i).correct
WrongAt(i) == TallyAt(i).wrong
AttemptsAt(i) == CorrectAt(i) + WrongAt(i)
Indices == 0..(Len(pairs) - 1)
EveryItemCorrectOnce == \A i \in Indices : CorrectAt(i) >= 1

\* u before v in the lexicographic order of integer tuples of one length.
LexLess(u, v) ==
    \E k \in 1..Len(u) : u[k] < v[k] /\ \A j \in 1..(k - 1) : u[j] = v[j]

Phase1Key(i) ==
    <<IF AttemptsAt(i) = 0 THEN 0 ELSE 1, IF CorrectAt(i) = 0 THEN 0 ELSE 1,
      AttemptsAt(i), 0 - WrongAt(i), i>>

\* accuracy(i) < accuracy(j) and accuracy(i) = accuracy(j), for
\* accuracy = correct / max(1, attempts), as a comparison of fractions.
AccLess(i, j) ==
    CorrectAt(i) * Max(1, AttemptsAt(j)) < CorrectAt(j) * Max(1, AttemptsAt(i))
AccEq(i, j) ==
    CorrectAt(i) * Max(1, AttemptsAt(j)) = CorrectAt(j) * Max(1, AttemptsAt(i))
Phase2Before(i, j) ==
    \/ AccLess(i, j)
    \/ AccEq(i, j) /\ LexLess(<<AttemptsAt(i), i>>, <<AttemptsAt(j), j>>)

IsOrderOfAll(order) ==
    /\ Len(order) = Len(pairs)
    /\ \A p \in 1..Len(order) : order[p] \in Indices
SortedPhase1(order) ==
    /\ IsOrderOfAll(order)
    /\ \A p, q \in 1..Len(order) : p < q => LexLess(Phase1Key(order[p]), Phase1Key(order[q]))
SortedPhase2(order) ==
    /\ IsOrderOfAll(order)
    /\ \A p, q \in 1..Len(order) : p < q => Phase2Before(order[p], order[q])

\* The position of index i in an order.
PosIn(order, i) == CHOOSE p \in 1..Len(order) : order[p] = i

\* The indices other than the current one, and those of them off cooldown.
OtherIndices == {i \in Indices : i # idx}
OffCooldown == {i \in OtherIndices : pairs[i + 1] \notin Range(recent)}

\* C1: with at least two items the index goNextPrioritized chooses is never
\* the current index; it chooses the current index only for a one-item list.
C1_NeverCurrent ==
    res.op = "goNext" =>
        /\ Len(pairs) >= 2 => res.val # idx
        /\ res.val = idx => Len(pairs) = 1

\* C1 witness: two or more items, every other item on cooldown, and a
\* choice other than the valid current index.
C1_Witness ==
    /\ res.op = "goNext"
    /\ Len(pairs) >= 2
    /\ idx \in Indices
    /\ OffCooldown = {}
    /\ res.val \in OtherIndices

\* C2: when some index differs from the current one and is off cooldown,
\* goNextPrioritized chooses the first such index of the priority order, so
\* never an item on cooldown.
C2_FirstOffCooldown ==
    (res.op = "goNext" /\ OffCooldown # {}) =>
        /\ res.val \in OffCooldown
        /\ \A c \in OffCooldown \ {res.val} :
              PosIn(sortedIndices(pairs, stats, dir), res.val)
                  < PosIn(sortedIndices(pairs, stats, dir), c)

\* C2 witness: the head of the priority order is on cooldown, another index
\* is not, and the choice is that other index.
C2_Witness ==
    /\ res.op = "goNext"
    /\ Len(pairs) >= 3
    /\ idx \in Indices
    /\ pairs[sortedIndices(pairs, stats, dir)[1] + 1] \in Range(recent)
    /\ sortedIndices(pairs, stats, dir)[1] # idx
    /\ res.val \in OffCooldown
    /\ res.val # sortedIndices(pairs, stats, dir)[1]

\* C3: while some item has no correct answer in the active direction, the
\* order is ascending in (unseen first, zero-correct first, attempts, wrong
\* descending, index); so every zero-correct item precedes every item with a
\* correct answer.
C3_Phase1Order ==
    (res.op = "sortedIndices" /\ ~EveryItemCorrectOnce) =>
        /\ SortedPhase1(res.val)
        /\ \A p, q \in 1..Len(res.val) :
              (CorrectAt(res.val[p]) = 0 /\ CorrectAt(res.val[q]) >= 1) => p < q

\* C3 witness: scenario B, whose item with 0 correct and 3 wrong comes first.
C3_Witness ==
    /\ res.op = "sortedIndices"
    /\ Len(pairs) = Len(ScenarioB)
    /\ \A k \in 1..Len(pairs) : TallyAt(k - 1) = ScenarioB[k]
    /\ res.val = <<0, 1, 2>>

\* C4: once every item has a correct answer in the active direction, the
\* order is ascending in (accuracy, attempts, index).
C4_Phase2Order ==
    (res.op = "sortedIndices" /\ EveryItemCorrectOnce) => SortedPhase2(res.val)

\* C4 witness: scenario C, ordered id1 (0.25), id3 (0.5), id2 (1.0).
C4_Witness ==
    /\ res.op = "sortedIndices"
    /\ Len(pairs) = Len(ScenarioC)
    /\ \A k \in 1..Len(pairs) : TallyAt(k - 1) = ScenarioC[k]
    /\ res.val = <<0, 2, 1>>

\* C5: the order of a call is the phase-2 order exactly when every item has
\* a correct answer in the active direction in the table of that call, and
\* the phase-1 order otherwise, whatever earlier calls found and whatever the
\* other direction holds.
C5_PhaseByActiveDirection ==
    res.op = "sortedIndices" =>
        IF EveryItemCorrectOnce THEN SortedPhase2(res.val) ELSE SortedPhase1(res.val)

\* C5 witness: every item has a correct answer in the active direction and
\* the phase-1 order would differ ...
C5_WitnessPhase2 ==
    /\ res.op = "sortedIndices"
    /\ EveryItemCorrectOnce
    /\ ~SortedPhase1(res.val)
    /\ \E i \in Indices : \E x \in Dirs(mod) \ {dir} :
          statFor(stats, pairs[i + 1], x).correct = 0

\* C8: the updater adds exactly 1 to the counter of the outcome in the
\* entry of the card and the active direction, creating the entry from
\* zeros when absent; every other counter and entry is as before.
C8_RecordOutcomeFrame ==
    res.op = "recordOutcome" =>
        LET id == pairs[idx + 1]
            inc(x, d, f) == IF x = id /\ d = dir /\ f = res.kind THEN 1 ELSE 0
        IN  /\ DOMAIN res.val = DOMAIN stats \cup {id}
            /\ \A x \in DOMAIN res.val : DOMAIN res.val[x] = Dirs(mod)
            /\ \A x \in DOMAIN res.val : \A d \in Dirs(mod) :
                  /\ res.val[x][d].correct
                        = statFor(stats, x, d).correct + inc(x, d, "correct")
                  /\ res.val[x][d].wrong
                        = statFor(stats, x, d).wrong + inc(x, d, "wrong")

\* C8 witness: the card had no entry, another item had one with answers in
\* the other direction, and the outcome was recorded.
C8_Witness ==
    /\ res.op = "recordOutcome"
    /\ pairs[idx + 1] \notin DOMAIN stats
    /\ \E id \in DOMAIN stats : \E x \in Dirs(mod) \ {dir} : stats[id][x].correct >= 1
    /\ res.val[pairs[idx + 1]][dir] = [correct |-> 0, wrong |-> 1]

(***************************************************************************)
(* Properties of the page component.                                       *)
(***************************************************************************)
\* The items of the selected working set.
SelectedIds == Range(limit(mod, Content(mod, selected)))

\* A load / restore started for the selected working set is still pending.
LoadPending == \E t \in loads : t.key = selected

\* C6: when a mark handler resumes after its write, with the card it was
\* made on still shown and its outcome in the stats table, the next index is
\* the one goNextPrioritized derives from that table, the id pushed onto
\* recent is the id of that card, and the answer is hidden again.
C6_NextFromRecordedOutcome ==
    [][\A m \in marks :
          (/\ m \notin marks'
           /\ loads = {}
           /\ m.pairs = pairs /\ m.idx = idx /\ m.dir = dir
           /\ stats = recordOutcome(mod, m.stats, pairs[idx + 1], dir, m.kind))
          => /\ idx' = nextIdxOf(pairs, stats, dir, idx, recent)
             /\ recent' = pushRecent(recent, pairs[idx + 1])
             /\ revealed' = FALSE]_vars

\* C7: while the selection stays the same, no correct or wrong counter of an
\* item of the selected working set decreases in any step, in any direction.
C7_CountersNeverDecrease ==
    [][(selected # NoKey /\ selected' = selected) =>
          \A id \in SelectedIds : \A d \in Dirs(mod) :
              /\ statFor(stats', id, d).correct >= statFor(stats, id, d).correct
              /\ statFor(stats', id, d).wrong >= statFor(stats, id, d).wrong]_vars

\* C9: a step of a load that was started for a working set other than the
\* selected one leaves pairs, stats and idx as they are.
C9_StaleLoadWritesNothing ==
    [][\A t \in loads :
          (t \notin loads' /\ t.key # selected) => UNCHANGED <<pairs, stats, idx>>]_vars

\* C10: while a load / restore for the selected working set is pending, no
\* step starts a mark handler, whether by button or by key.
C10_NoMarkWhileLoading ==
    [][LoadPending => marks' \subseteq marks]_vars

\* The mark handlers that start (stop) in a step.
MarksStarted == marks' \ marks
MarksEnded == marks \ marks'

\* C11: the step of a mark that updates the stats table also makes the
\* advance, without waiting for the attempt write: it selects the next card,
\* pushes the marked card onto recent and hides the answer.
C11_AdvanceWithoutWaiting ==
    [][MarksStarted # {} =>
          /\ idx' = nextIdxOf(pairs, stats', dir, idx, recent)
          /\ recent' = pushRecentAt(recent, pairs, idx)
          /\ revealed' = FALSE]_vars

\* The mark guard of MarkBegin holds for some control.
MarkPossible == \E path \in Paths : markGuard(path)

\* C12: when the attempt write of a mark of a signed-in user ends without
\* having stored the attempt, the handler still completes: the stats table
\* keeps its increment, goNextPrioritized selects the next card and pushes
\* the marked one onto recent, the answer is hidden, and a mark is possible
\* on the new card.
C12_FailedWriteStillAdvances ==
    [][\A m \in MarksEnded :
          (uid # NoUid /\ srvStats' = srvStats) =>
              /\ stats' = stats
              /\ idx' = nextIdxOf(m.pairs, m.stats, m.dir, m.idx, recent)
              /\ idx' \in 0..(Len(pairs) - 1)
              /\ Len(pairs) >= 2 => idx' # m.idx
              /\ recent' = pushRecentAt(recent, m.pairs, m.idx)
              /\ revealed' = FALSE
              /\ MarkPossible']_vars

\* C12 witness: a signed-in user has made two marks, both handlers are
\* through, and the statistics store holds neither attempt.
C12_Witness ==
    /\ uid # NoUid
    /\ budget.marks = MaxDrillMarks - 2
    /\ marks = {}
    /\ loads = {}
    /\ srvStats \in {NoTable, HistoryStats(mod)}
    /\ ~revealed
    /\ \E id \in DOMAIN stats :
          attempts(statFor(stats, id, dir)) > attempts(statFor(srvStats, id, dir))

\* The last position the progress store holds for the context of load t.
storedLast(t) == loadProgress(srvProg, uid, t.key, t.dir)

\* Load t is the only pending run of the load effect, was started for the
\* present selection, user and direction, and ends in this step, with no
\* mark under way: a session starts.
SessionStarts(t) ==
    /\ loads = {t}
    /\ loads' = {}
    /\ t.key = selected /\ t.uid = uid /\ t.dir = dir
    /\ marks = {}

\* C13: when a session starts and the stored last position is the id of no
\* item of the loaded list, the index becomes the pickFirst result for the
\* restored stats, a valid index of the list.
C13_MissingTargetFallsBack ==
    [][\A t \in loads :
          (SessionStarts(t) /\ storedLast(t) # 0 /\ storedLast(t) \notin Range(pairs')) =>
              /\ idx' = pickFirstIndexByPriority(pairs', stats', dir)
              /\ idx' \in 0..(Len(pairs') - 1)]_vars

\* C14: when a session starts and there is no last position to restore (no
\* user, or nothing stored for the context), the first card is the head of
\* the priority order of the loaded list for the restored stats.
C14_FreshStartPicksFirst ==
    [][\A t \in loads :
          (SessionStarts(t) /\ storedLast(t) = 0) =>
              idx' = sortedIndices(pairs', stats', dir)[1]]_vars

\* The items of the selected working set are on display: they are the
\* list, and the page does not show its loading message instead.
Displayed ==
    /\ selected # NoKey
    /\ pairs = limit(mod, Content(mod, selected))
    /\ mod = "nom" => (ready /\ ~loadingPairs)
    /\ mod = "verbe" => ~loadingPairs

\* The index of the stored last position of the selection, when it is in
\* the list, and the pickFirst index.
StartIndices ==
    LET last == loadProgress(srvProg, uid, selected, dir)
    IN  {pickFirstIndexByPriority(pairs, stats, dir)} \cup
        (IF last # 0 /\ findIndex(pairs, last) >= 0 THEN {findIndex(pairs, last)} ELSE {})

\* C15: in the step that puts the items of a newly selected working set on
\* display, nothing of the previous session is left: the stats table has
\* entries for items of the new list only, recent is empty, the index is
\* the restored or the pickFirst index, and the answer is hidden.  (Stated
\* for the step that also ends the load, with no load of an earlier
\* selection pending.)
C15_SelectionResetsSession ==
    [][(/\ ~Displayed /\ Displayed'
        /\ loads' = {}
        /\ \A t \in loads : t.key = selected) =>
          /\ DOMAIN stats' \subseteq Range(pairs')
          /\ recent' = <<>>
          /\ idx' \in StartIndices'
          /\ revealed' = FALSE]_vars

\* C16: every step that changes currentIndex (manual next, manual prev, the
\* advance after a mark, the restore at session start) ends with the answer
\* hidden.
C16_IndexChangeHidesAnswer ==
    [][idx' # idx => revealed' = FALSE]_vars

\* A card other than the one left last is shown with its answer hidden.
C16_Witness ==
    /\ loads = {} /\ marks = {}
    /\ budget.marks < MaxDrillMarks
    /\ recent # <<>>
    /\ idAt(pairs, idx) # <<>>
    /\ idAt(pairs, idx)[1] # recent[Len(recent)]
    /\ ~revealed

\* C17: an outcome is recorded only for a card whose answer is revealed:
\* from a state with revealed = FALSE no step starts a mark, and stats
\* changes only by a selection or a step of the load effect.
C17_MarkOnlyWhenRevealed ==
    [][~revealed =>
          /\ MarksStarted = {}
          /\ (selected' = selected /\ loads' = loads) => stats' = stats]_vars

\* A card is shown with its answer hidden while the keys S / F are live and
\* a mark would pass every other guard.
C17_Witness ==
    /\ ~revealed
    /\ loads = {}
    /\ budget.marks > 0
    /\ markGuard("hotkey")
    /\ markGuard("button")

\* A step of manual navigation (the next / previous buttons and keys).
ManualNav == budget'.navs < budget.navs

\* C18: manual previous moves currentIndex by -1 and manual next by +1
\* without consulting the priority order, except that a manual next at the
\* last index takes the card goNextPrioritized picks.
C18_ManualNavIsRaw ==
    [][ManualNav =>
          \/ idx' = idx - 1
          \/ idx < Len(pairs) - 1 /\ idx' = idx + 1
          \/ idx >= Len(pairs) - 1 /\ idx' = nextIdxOf(pairs, stats, dir, idx, recent)]_vars

(***************************************************************************)
(* Properties of the recency queue.                                        *)
(***************************************************************************)
NoDuplicates(s) == \A p, q \in 1..Len(s) : p < q => s[p] # s[q]

\* The ids of S stand in the same relative order in s and in t.
SameOrder(s, t, S) ==
    \A a, b \in S : PosIn(s, a) < PosIn(s, b) <=> PosIn(t, a) < PosIn(t, b)

\* C19: after any sequence of pushRecent calls with capacity N the queue has
\* no duplicate id, at most N entries, and the latest pushed id last; a push
\* of an id already present moves it to the end, and a push onto a full
\* queue drops the oldest entry.
C19_RecentIsDedupFifo ==
    res.op = "pushRecent" =>
        LET before == res.before
            kept == Range(before) \ Range(res.id)
        IN  /\ NoDuplicates(recent)
            /\ Len(recent) <= res.cap
            /\ res.last = <<>> => recent = <<>>
            /\ res.last # <<>> => (recent # <<>> /\ recent[Len(recent)] = res.last[1])
            /\ res.id = <<>> => recent = before
            /\ (res.id # <<>> /\ res.id[1] \in Range(before)) =>
                  /\ Len(recent) = Len(before)
                  /\ Range(recent) = Range(before)
                  /\ SameOrder(before, recent, kept)
            /\ (res.id # <<>> /\ res.id[1] \notin Range(before) /\ Len(before) < res.cap) =>
                  recent = Append(before, res.id[1])
            /\ (res.id # <<>> /\ res.id[1] \notin Range(before) /\ Len(before) = res.cap) =>
                  recent = Append(Tail(before), res.id[1])

\* C19 witness: a full queue of three entries whose oldest id was pushed
\* again and moved to the end.
C19_Witness ==
    /\ res.op = "pushRecent"
    /\ res.cap = 3
    /\ Len(res.before) = 3
    /\ res.id = <<res.before[1]>>
    /\ recent = <<res.before[2], res.before[3], res.before[1]>>

\* What is left of the queue after dropping its k oldest entries, and the
\* indices other than the current one whose id is not among them.
Remaining(k) == SubSeq(recent, k + 1, Len(recent))
CandAt(k) == {i \in OtherIndices : pairs[i + 1] \notin Range(Remaining(k))}
Relaxations == {k \in 1..Len(recent) : CandAt(k) # {}}

\* v is the member of S that comes first in the priority order.
FirstInOrderOf(S, v) ==
    /\ v \in S
    /\ \A c \in S \ {v} :
          PosIn(sortedIndices(pairs, stats, dir), v) < PosIn(sortedIndices(pairs, stats, dir), c)

\* C20: when every index other than the current one is on cooldown,
\* goNextPrioritized drops entries of recent oldest first and takes, at the
\* first relaxation that leaves a candidate, the first index of the priority
\* order that is not the current one and not among the remaining entries;
\* with no candidate at all it takes the first other index of the order, or
\* the current index when there is none.  The stored queue is not shortened:
\* it is the queue before the call with the current id pushed.
C20_RelaxOldestFirst ==
    (res.op = "goNext" /\ OffCooldown = {}) =>
        /\ IF Relaxations # {}
           THEN LET k0 == CHOOSE k \in Relaxations : \A j \in Relaxations : k <= j
                IN  FirstInOrderOf(CandAt(k0), res.val)
           ELSE IF OtherIndices # {} THEN FirstInOrderOf(OtherIndices, res.val)
           ELSE res.val = idx
        /\ idAt(pairs, idx) = <<>> => res.recent = recent
        /\ idAt(pairs, idx) # <<>> =>
              /\ res.recent # <<>>
              /\ res.recent[Len(res.recent)] = pairs[idx + 1]
              /\ Len(res.recent) >= Min(COOLDOWN_N, Len(recent))

\* C20 witness: three items, the two others both in recent; the choice is
\* the item of the oldest entry while the newer entry still blocks its item.
C20_Witness ==
    /\ res.op = "goNext"
    /\ Len(pairs) = 3
    /\ idx \in Indices
    /\ Len(recent) = 2
    /\ OffCooldown = {}
    /\ pairs[res.val + 1] = recent[1]
    /\ recent[2] \in Range(pairs) \ {pairs[idx + 1]}

(***************************************************************************)
(* Properties of whole sessions.                                           *)
(***************************************************************************)
\* C21: with two items (and COOLDOWN_N = 1) the marks present the two items
\* in alternation: when the handler of a mark on one card finishes, the
\* card shown is the other item, whatever recent holds.
C21_TwoItemsAlternate ==
    [][\A m \in MarksEnded :
          Len(m.pairs) = 2 =>
              /\ idx' \in {0, 1}
              /\ idx' # m.idx
              /\ pairs'[idx' + 1] # m.pairs[m.idx + 1]]_vars

\* C21 witness: two marks done in a two-item session, the second on the
\* second item, and the first item is shown again.
C21_Witness ==
    /\ Len(pairs) = 2
    /\ marks = {} /\ loads = {}
    /\ budget.marks = MaxDrillMarks - 2
    /\ budget.navs = MaxNavs
    /\ recent = <<pairs[2]>>
    /\ idx = 0

(***************************************************************************)
(* Properties of the first and the next card.                              *)
(***************************************************************************)
AllZero == \A i \in Indices : AttemptsAt(i) = 0

\* The current card is a card of the list that has been marked, and recent
\* is a queue pushRecent can have produced.
CurrentMarked == idx \in Indices /\ AttemptsAt(idx) >= 1 /\ Len(recent) <= COOLDOWN_N

\* C22 as claimed: with all stats zero pickFirst returns index 0; and after
\* a mark the next card is a different index with attempts = 0 whenever an
\* unseen item other than the current card exists.
C22_UnseenBeforeSeen ==
    /\ (res.op = "pickFirst" /\ AllZero) => res.val = 0
    /\ (res.op = "goNext" /\ CurrentMarked
            /\ \E i \in OtherIndices : AttemptsAt(i) = 0) =>
           (res.val # idx /\ AttemptsAt(res.val) = 0)

\* C22 amended: with all stats zero pickFirst returns index 0; and the next
\* card is a different index with attempts = 0 whenever an unseen item
\* other than the current card exists whose id is not in recent.
C22_UnseenOffCooldownFirst ==
    /\ (res.op = "pickFirst" /\ AllZero) => res.val = 0
    /\ (res.op = "goNext" /\ \E i \in OffCooldown : AttemptsAt(i) = 0) =>
           (res.val \in OffCooldown /\ AttemptsAt(res.val) = 0)

\* C22 witness: three or more items, the current card marked, one unseen
\* item on cooldown and another not, and the latter is chosen.
C22_Witness ==
    /\ res.op = "goNext"
    /\ Len(pairs) >= 3
    /\ CurrentMarked
    /\ recent # <<>>
    /\ \E i \in OtherIndices : AttemptsAt(i) = 0 /\ pairs[i + 1] \in Range(recent)
    /\ AttemptsAt(res.val) = 0
    /\ res.val \in OffCooldown

\* C23: with exactly one item every call of goNextPrioritized, whatever the
\* table, the queue and the current index hold, returns that item's index.
C23_SingleItemStays ==
    (res.op = "goNext" /\ Len(pairs) = 1) => res.val = 0

\* C23 witness: the only item is the current card and is on cooldown.
C23_Witness ==
    /\ res.op = "goNext"
    /\ Len(pairs) = 1
    /\ idx = 0
    /\ pairs[1] \in Range(recent)
    /\ res.val = 0

\* C24: for a non-empty list, any table (entries may be missing), any queue
\* and any current index (-1 and one past the end included) the first and
\* the next card are indices of the list.
C24_IndexInRange ==
    res.op \in {"goNext", "pickFirst"} => res.val \in Indices

\* C24 witness: a table without entries for the unanswered items, a queue
\* holding every id of the list, the current index past the end, and a
\* next card of the list.
C24_Witness ==
    /\ res.op = "goNext"
    /\ Len(pairs) >= 2
    /\ idx = Len(pairs)
    /\ \E i \in Indices : pairs[i + 1] \notin DOMAIN stats
    /\ Range(pairs) \subseteq Range(recent)
    /\ res.val \in Indices

\* The table that the goNextPrioritized of the pending mark m will sort has
\* a correct answer for every item: sortedIndices takes its phase-2 branch.
SortsInPhase2(m) == allHaveAtLeastOneCorrect(m.pairs, m.stats, m.dir)

\* C25: in a session with a fixed direction, once the scheduler has chosen
\* a next card in phase 2, no later choice after a mark is made in phase 1:
\* when the handler of a mark finishes with a phase-2 sort, every handler
\* still to finish sorts in phase 2 as well.
C25_PhaseTwoStays ==
    [][\A m \in MarksEnded :
          SortsInPhase2(m) =>
              \A n \in marks' : (n.pairs = m.pairs /\ n.dir = m.dir) => SortsInPhase2(n)]_vars

(***************************************************************************)
(* Properties of the priority order as a function.                         *)
(***************************************************************************)
\* C26: the priority order is a permutation of the indices 0..n-1: every
\* index exactly once, in both phases.
C26_OrderIsPermutation ==
    res.op = "sortedIndices" =>
        /\ Len(res.val) = Len(pairs)
        /\ Range(res.val) = Indices
        /\ NoDuplicates(res.val)

\* C26 witness: three or more items in phase 2, in an order that moves the
\* first and the last index.
C26_Witness ==
    /\ res.op = "sortedIndices"
    /\ Len(pairs) >= 3
    /\ EveryItemCorrectOnce
    /\ res.val[1] # 0
    /\ res.val[Len(res.val)] # Len(pairs) - 1
    /\ Range(res.val) = Indices

\* The comparator c never reports two distinct indices as equal, and gives
\* opposite signs for the two ways round.
StrictOnIndices(c(_, _)) ==
    \A a, b \in Indices :
        a # b => (c(a, b) # 0 /\ (c(a, b) < 0 <=> c(b, a) > 0))

\* C27: the comparator of each phase separates any two distinct indices
\* (the index is the last tie-break), and a second call with the same
\* list, table and direction returns the same sequence whatever idx,
\* recent and revealed have become.
C27_OrderIsDeterministic ==
    /\ res.op = "sortedIndices" =>
          /\ StrictOnIndices(LAMBDA a, b : cmpPhase1(pairs, stats, dir, a, b))
          /\ StrictOnIndices(LAMBDA a, b : cmpPhase2(pairs, stats, dir, a, b))
    /\ res.op = "sortedIndicesAgain" => res.val = res.first

\* C27 witness: two items with equal tallies, and a second call, after the
\* card changed and recent was pushed, that gave the same reordered
\* sequence.
C27_Witness ==
    /\ res.op = "sortedIndicesAgain"
    /\ Len(pairs) >= 3
    /\ idx # 0 /\ recent # <<>> /\ revealed
    /\ \E a, b \in Indices : a # b /\ TallyAt(a) = TallyAt(b)
    /\ res.val[1] # 0
    /\ res.val = res.first

\* Tallies written into the other direction of an entry.
OtherTallies == {Zero, [correct |-> 0, wrong |-> MaxCount], [correct |-> MaxCount, wrong |-> 0]}

\* The table st with the tallies of item id replaced by o in every direction
\* but d.
withOther(st, id, d, o) ==
    [x \in DOMAIN st |->
        IF x = id THEN [y \in DOMAIN st[x] |-> IF y = d THEN st[x][y] ELSE o] ELSE st[x]]

\* C28: a step that records an outcome leaves the tallies of every direction
\* but the active one as they were (zero for an entry it creates), and the
\* order computed for the active direction is the order computed on any
\* table that differs only in the other-direction tallies of one item.
C28_DirectionsIndependent ==
    [][/\ stats' # stats =>
            \A id \in DOMAIN stats' : \A x \in Dirs(mod) \ {dir} :
                stats'[id][x] = IF id \in DOMAIN stats THEN stats[id][x] ELSE Zero
       /\ (res.op = "none" /\ res'.op = "sortedIndices") =>
            \A id \in DOMAIN stats : \A o \in OtherTallies :
                sortedIndices(pairs, withOther(stats, id, dir, o), dir) = res'.val]_vars

\* C28 witness: every item has a correct answer in the other direction, an
\* item answered in the active direction has none there, and the order
\* computed does not start with the first item.
C28_Witness ==
    /\ res.op = "sortedIndices"
    /\ Len(pairs) >= 2
    /\ \A k \in 1..Len(pairs) : pairs[k] \in DOMAIN stats
    /\ \A k \in 1..Len(pairs) : \A x \in Dirs(mod) \ {dir} : stats[pairs[k]][x].correct >= 1
    /\ \E k \in 1..Len(pairs) : stats[pairs[k]][dir] = Zero
    /\ \E k \in 1..Len(pairs) : stats[pairs[k]][dir].wrong >= 1
    /\ res.val[1] # 0

\* The table st with an explicit zero entry for every item of ps that has
\* none.
withZeroEntries(st, ps) ==
    [id \in DOMAIN st \cup Range(ps) |-> IF id \in DOMAIN st THEN st[id] ELSE zeroDirStat(mod)]

\* C29: on a table that lacks the entry of some item, the next index, the
\* first index, the priority order and the recorded outcome are those
\* obtained on the same table with explicit zero entries for the items
\* without one.
C29_AbsentIsZero ==
    LET full == withZeroEntries(stats, pairs)
    IN  (res.op # "none" /\ full # stats) =>
            /\ res.op = "goNext" => res.val = nextIdxOf(pairs, full, dir, idx, recent)
            /\ res.op = "pickFirst" =>
                  /\ res.val = pickFirstIndexByPriority(pairs, full, dir)
                  /\ sortedIndices(pairs, stats, dir) = sortedIndices(pairs, full, dir)
            /\ res.op = "recordOutcome" =>
                  withZeroEntries(res.val, pairs)
                      = recordOutcome(mod, full, pairs[idx + 1], dir, res.kind)

\* C29 witness: the table lacks the entry of an item and holds the entry of
\* an answered one, and the next card chosen is an item without an entry.
C29_Witness ==
    /\ res.op = "goNext"
    /\ \E k \in 1..Len(pairs) : pairs[k] \in DOMAIN stats /\ attempts(stats[pairs[k]][dir]) >= 1
    /\ res.val \in Indices
    /\ res.val # idx
    /\ pairs[res.val + 1] \notin DOMAIN stats

\* C30: a step after which a signed-in user with a working set selected is
\* shown a card other than the one shown before leaves the id of the new
\* card stored as the last position of the selected working set and the
\* active direction.
C30_CardChangeSavesPosition ==
    [][(/\ uid' # NoUid
        /\ selected' # NoKey
        /\ idAt(pairs', idx') # <<>>
        /\ idAt(pairs', idx') # idAt(pairs, idx))
          => srvProg'[<<selected', dir'>>] = idAt(pairs', idx')[1]]_vars

\* C30 witness: the load is through, a mark has moved the signed-in user
\* to another card, and the store holds that card's id, which is not the
\* position it held at the start.
C30_Witness ==
    /\ uid # NoUid
    /\ loads = {} /\ marks = {}
    /\ budget.marks < MaxDrillMarks
    /\ recent # <<>>
    /\ idAt(pairs, idx) # <<>>
    /\ idAt(pairs, idx)[1] # recent[Len(recent)]
    /\ srvProg[<<selected, dir>>] = idAt(pairs, idx)[1]
    /\ srvProg[<<selected, dir>>] \notin {HistoryProg(mod)[<<selected, dir>>], 0}

\* The load of the selected working set is through and found no item.
NothingToPractice == selected # NoKey /\ loads = {} /\ marks = {} /\ pairs = <<>>

\* The page shows its loading text or, in the header, "…" for the count.
ShownAsLoading == loadingPairs \/ (mod = "nom" /\ ~ready)

UnseenIndices == {i \in Indices : AttemptsAt(i) = 0}

\* C32: in a session navigated by marks alone, when the handler of a mark
\* finishes while some item has never been answered, the card it shows is
\* one never answered; and it sorts in phase 2 only when every item has a
\* correct answer.
C32_PhaseOneBreadth ==
    [][\A m \in MarksEnded :
          budget.navs = MaxNavs =>
              /\ UnseenIndices # {} => idx' \in UnseenIndices
              /\ SortsInPhase2(m) => EveryItemCorrectOnce]_vars

\* A mark made on the card now shown is in flight: its attempt write has
\* not resolved and its handler has not advanced the card.
MarkInFlightOnCard == \E m \in marks : m.pairs = pairs /\ m.idx = idx /\ m.dir = dir

\* C33: while a mark on the shown card is in flight, no step starts another
\* mark handler (which would add 1 to the card's tally again and issue a
\* second attempt write), whether by button or by key.
C33_OneOutcomePerPresentation ==
    [][MarkInFlightOnCard => MarksStarted = {}]_vars

\* C34: the progress store holds, under every working-set key and
\* direction, either nothing or the id of an item of that working set: no
\* save has stored the id of an item of another working set under the key.
C34_SavedIdBelongsToKey ==
    \A ck \in DOMAIN srvProg :
        srvProg[ck] # 0 => srvProg[ck] \in Range(Content(mod, ck[1]))

\* C35: with three or more items, when the handler of a mark made on the
\* shown card finishes with no other mark pending, the card left by the
\* mark before it (the one entry of recent), the marked card and the card
\* shown next are three different items; with exactly three items the next
\* card is thereby the one item that is neither of the two.
C35_ThreeCardsDiffer ==
    [][\A m \in MarksEnded :
          (marks = {m} /\ m.idx = idx /\ Len(pairs) >= 3 /\ recent # <<>>) =>
              LET prev == recent[Len(recent)]
                  cur == pairs[idx + 1]
              IN  /\ prev # cur
                  /\ idx' \in Indices
                  /\ pairs[idx' + 1] \notin {prev, cur}]_vars

\* C35 witness: a three-item session after two marks, the second made on
\* the card that the first one led to; a third item is shown, one with a
\* correct answer, although the item left first has none.
C35_Witness ==
    /\ Len(pairs) = 3
    /\ marks = {}
    /\ budget.marks = MaxDrillMarks - 2
    /\ Len(recent) = 1
    /\ idx \in Indices
    /\ pairs[idx + 1] # recent[1]
    /\ \E i \in Indices : /\ i # idx
                           /\ pairs[i + 1] # recent[1]
                           /\ TallyAt(i) = [correct |-> 0, wrong |-> 1]
                           /\ TallyAt(idx) = [correct |-> 1, wrong |-> 0]
    /\ ~revealed

\* C36: whenever the items of the selected working set are on display, the
\* list is not empty and no load is pending, idx is an index of the list,
\* so that there is a current card.
C36_ReadyHasCard ==
    (Displayed /\ loads = {} /\ pairs # <<>>) => idx \in Indices

C38_NoMarkWithoutUid ==
    [][(mod = "verbe" /\ uid = NoUid /\ uid' = NoUid) =>
          /\ MarksStarted = {}
          /\ srvStats' = srvStats
          /\ (loads' = loads /\ selected' = selected) => stats' = stats]_vars

\* C38 witness: Verbe without a user id shows a card with its answer
\* revealed and the hotkeys enabled, so that the key S or F calls mark; no
\* mark is pending and the table is as the load left it.
C38_Witness ==
    /\ mod = "verbe"
    /\ uid = NoUid
    /\ loads = {}
    /\ revealed
    /\ hotkeysEnabled
    /\ idAt(pairs, idx) # <<>>
    /\ marks = {}
    /\ budget.marks = MaxDrillMarks
    /\ stats = zeroInit(mod, pairs)

\* C39: onPrev at an index of 0 or below (-1 included) changes nothing, and
\* at any other index it lowers idx by exactly 1; it never changes stats or
\* recent.
C39_PrevFrame ==
    [][res'.op = "onPrev" =>
          /\ UNCHANGED <<stats, recent, pairs>>
          /\ idx <= 0 => UNCHANGED <<idx, revealed>>
          /\ idx > 0 => idx' = idx - 1]_vars

\* C39 witness: onPrev was called with the answer revealed on the
\* undetermined index -1, which it left as it was with the answer still
\* revealed and the entry of recent in place.
C39_Witness ==
    /\ res.op = "onPrev"
    /\ idx = 0 - 1
    /\ revealed
    /\ recent # <<>>
    /\ Len(pairs) >= 2

====
